---- MODULE Spec2Model ----
(***************************************************************************)
(* Session-based co-occurrence recommender.                                *)
(*                                                                         *)
(*   src/RIC_demo/run_ric_demo.py                                          *)
(*     get_ric_confidence_scores   the Cypher confidence-score query       *)
(*     UserSessionRecommender      the per-session weight vector           *)
(*                                                                         *)
(* Two specifications share this module:                                   *)
(*   Spec        one UserSessionRecommender and the calls made on it; the  *)
(*               graph store is the environment and answers each query     *)
(*               with rows, with an error, or not at all.                  *)
(*   SpecScorer  the Cypher query of get_ric_confidence_scores evaluated   *)
(*               on every small historical graph.                          *)
(*                                                                         *)
(* Weights and scores are Python floats in the source.  They are modelled  *)
(* as exact rationals <<numerator, denominator>> in lowest terms, so the   *)
(* arithmetic below is the real-number arithmetic the floats approximate.  *)
(***************************************************************************)
EXTENDS Integers, Sequences, FiniteSets, TLC

VARIABLES
    \* ---- UserSessionRecommender ----
    catalog,      \* all_tool_ids, the index of self.session_weights
    alpha,        \* self.alpha
    weights,      \* self.session_weights['weight'], tool -> rational
    pc,           \* "idle" | "querying": where update_recommendations is
    stalled,      \* TRUE when the store will never answer the pending query
    lastTool,     \* last_tool_run of the current / last call
    resp,         \* what session.run gave the current / last call
    before,       \* self.session_weights['weight'] when the call was entered
    outcome,      \* "none" | "returned" | "raised": how the last call ended
    error,        \* "none" | "StoreError" | "KeyError": what it raised
    recs,         \* the DataFrame the last call returned, <<tool, weight>> rows
    steps,        \* number of calls made so far
    clean,        \* the weights the calls that returned would have left alone
    \* ---- get_ric_confidence_scores on a historical graph ----
    graph,        \* the Tool / Job / Session graph in the store
    queryTool,    \* $last_tool_id
    qpc,          \* "ready" | "done"
    qresult,      \* [raised, records] of the last query
    \* ---- two UserSessionRecommender instances on one driver ----
    two,          \* the instances, their frames and their pending calls
    \* ---- generate_cypher_script ----
    gen           \* the loop variables and the commands appended so far

sessionVars == <<catalog, alpha, weights, pc, stalled, lastTool, resp, before,
                 outcome, error, recs, steps, clean>>
scorerVars == <<graph, queryTool, qpc, qresult>>
vars == <<catalog, alpha, weights, pc, stalled, lastTool, resp, before,
          outcome, error, recs, steps, clean, graph, queryTool, qpc, qresult,
          two, gen>>

----------------------------------------------------------------------------
(* Bounds of the model. *)

\* Calls of update_recommendations made on the session.
MaxSteps == 2
\* Job nodes of a historical graph.
NJobs == 4
\* Session nodes of a historical graph.
NSessions == 2

(* Program constants. *)

\* LIMIT 10 of the Cypher query.
Limit == 10
\* .head(5) of update_recommendations.
TopK == 5

\* Tool identifiers.
Tools == {"A", "B", "C"}

----------------------------------------------------------------------------
(* Exact rational arithmetic standing for Python's float arithmetic. *)

Abs(n) == IF n < 0 THEN -n ELSE n

RECURSIVE GCD(_, _)
GCD(a, b) == IF b = 0 THEN a ELSE GCD(b, a % b)

\* <<n, d>> in lowest terms with d > 0.
Norm(r) ==
    LET g == GCD(Abs(r[1]), Abs(r[2]))
        s == IF r[2] < 0 THEN -1 ELSE 1
    IN  IF r[1] = 0 THEN <<0, 1>> ELSE <<(s * r[1]) \div g, (s * r[2]) \div g>>

Zero == <<0, 1>>
One == <<1, 1>>
RAdd(x, y) == Norm(<<x[1] * y[2] + y[1] * x[2], x[2] * y[2]>>)
RSub(x, y) == Norm(<<x[1] * y[2] - y[1] * x[2], x[2] * y[2]>>)
RMul(x, y) == Norm(<<x[1] * y[1], x[2] * y[2]>>)
RLess(x, y) == x[1] * y[2] < y[1] * x[2]
RLeq(x, y) == x[1] * y[2] <= y[1] * x[2]

Min(a, b) == IF a < b THEN a ELSE b

\* Every sequence of all the <<item, key>> pairs of P that is non-increasing
\* in key: a descending sort, the order of equal keys being the sort's own.
RECURSIVE DescOrders(_)
DescOrders(P) ==
    IF P = {} THEN {<<>>}
    ELSE UNION {{<<x>> \o s : s \in DescOrders(P \ {x})} :
                    x \in {y \in P : \A z \in P : RLeq(z[2], y[2])}}

\* The first n elements of s (DataFrame.head, LIMIT).
Head_(s, n) == SubSeq(s, 1, Min(n, Len(s)))

----------------------------------------------------------------------------
(* UserSessionRecommender *)

\* alpha given to the constructor (default 0.3), and the two ends of [0, 1].
Alphas == {Zero, <<3, 10>>, One}

\* all_tool_ids given to the constructor.
Catalogs == {{"A", "B"}, {"A", "B", "C"}}

\* confidence_score values the store returns in this specification.
Scores == {<<1, 2>>, One}

\* What session.run can give for $last_tool_id = last: a failure of the driver,
\* or the rows of the query: one row per other tool at most, never the query
\* tool itself, by descending confidence_score, LIMIT rows at most.
Rows(last) ==
    {r \in UNION {[1..n -> (Tools \ {last}) \X Scores] : n \in 0..Cardinality(Tools)} :
        /\ Len(r) <= Limit
        /\ \A i, j \in DOMAIN r : r[i][1] = r[j][1] => i = j
        /\ \A i, j \in DOMAIN r : i < j => RLeq(r[j][2], r[i][2])}

\* No answer yet.
NoResponse == [kind |-> "none", rows |-> <<>>]
StoreError == [kind |-> "error", rows |-> <<>>]
Responses(last) == {StoreError} \cup {[kind |-> "rows", rows |-> r] : r \in Rows(last)}

\* __init__: {'tool': all_tool_ids, 'weight': 0.0} indexed by tool.
InitWeights(toolIds) == [t \in toolIds |-> Zero]

\* pd.DataFrame(records): a list of dicts gives the dicts' keys as columns, and
\* an empty list gives a frame with no column at all.
Columns(rows) ==
    IF rows = <<>> THEN {} ELSE {"recommendedTool", "confidence_score"}

\* Decay with the two factors swapped: the old weight kept at 1 - alpha.
Decay_Swapped(w, a) == [t \in DOMAIN w |-> RMul(w[t], RSub(One, a))]

\* self.session_weights['weight'] *= self.alpha
Decay(w, a) == [t \in DOMAIN w |-> RMul(w[t], a)]

\* The new evidence weighted by alpha instead of 1 - alpha.
NewScore_NoComplement(a, c) == RMul(a, c)

\* new_score = (1 - self.alpha) * row['confidence_score']
NewScore(a, c) == RMul(RSub(One, a), c)

\* The raw confidence score added, not new_score.
BlendOne_Raw(w, a, row) == [w EXCEPT ![row[1]] = RAdd(@, row[2])]

\* self.session_weights.loc[tool, 'weight'] += new_score, for a tool of the
\* index: .loc reads the cell, adds, and writes it back.
BlendOne(w, a, row) == [w EXCEPT ![row[1]] = RAdd(@, NewScore(a, row[2]))]

\* Whether reading .loc[tool, 'weight'] raises KeyError: the label is not in
\* the index.
LocRaises(w, tool) == tool \notin DOMAIN w

\* The loop writing .loc[tool, 'weight'] = ... without reading it first: a
\* label outside the index is appended as a new row.
RECURSIVE BlendLoop_Enlarging(_, _, _)
BlendLoop_Enlarging(w, a, rows) ==
    IF rows = <<>> THEN [weights |-> w, error |-> "none"]
    ELSE BlendLoop_Enlarging(
            [t \in (DOMAIN w) \cup {Head(rows)[1]} |->
                IF t = Head(rows)[1]
                THEN RAdd(IF t \in DOMAIN w THEN w[t] ELSE Zero, NewScore(a, Head(rows)[2]))
                ELSE w[t]],
            a, Tail(rows))

\* The for loop over confidence_scores.iterrows(): rows are blended in order
\* and the loop stops at the first row whose read raises.
RECURSIVE BlendLoop(_, _, _)
BlendLoop(w, a, rows) ==
    IF rows = <<>> THEN [weights |-> w, error |-> "none"]
    ELSE IF LocRaises(w, Head(rows)[1]) THEN [weights |-> w, error |-> "KeyError"]
    ELSE BlendLoop(BlendOne(w, a, Head(rows)), a, Tail(rows))

\* The ranking taken over the whole weight table, the tool just run included.
DropLast_Kept(w, last) == w

\* self.session_weights.drop(last_tool_run, errors='ignore')
DropLast(w, last) == [t \in (DOMAIN w) \ {last} |-> w[t]]

\* The rows sorted by ascending weight.
SortedDesc_Ascending(w) ==
    {[i \in DOMAIN s |-> s[Len(s) + 1 - i][1]] :
        s \in DescOrders({<<t, w[t]>> : t \in DOMAIN w})}

\* sort_values('weight', ascending=False): every order of the rows that is
\* non-increasing in weight (the order of equal weights is the sort's own).
SortedDesc(w) ==
    {[i \in DOMAIN s |-> s[i][1]] : s \in DescOrders({<<t, w[t]>> : t \in DOMAIN w})}

\* recommendations.sort_values('weight', ascending=False).head(5)
Recommendations(w, last) ==
    {[i \in DOMAIN Head_(s, TopK) |-> <<s[i], w[s[i]]>>] : s \in SortedDesc(DropLast(w, last))}

\* update_recommendations blending the new scores in before it fades.
UpdateRecommendations_BlendFirst(w, a, r) ==
    IF r.kind = "error" THEN [weights |-> w, error |-> "StoreError"]
    ELSE IF "recommendedTool" \notin Columns(r.rows)
         THEN [weights |-> w, error |-> "KeyError"]
    ELSE [weights |-> Decay(BlendLoop(w, a, r.rows).weights, a),
          error |-> BlendLoop(w, a, r.rows).error]

\* update_recommendations fading the weights before it queries the store.
UpdateRecommendations_DecayFirst(w, a, r) ==
    IF r.kind = "error" THEN [weights |-> Decay(w, a), error |-> "StoreError"]
    ELSE IF "recommendedTool" \notin Columns(r.rows)
         THEN [weights |-> Decay(w, a), error |-> "KeyError"]
    ELSE BlendLoop(Decay(w, a), a, r.rows)

\* update_recommendations from the answer of session.run to its end: the
\* weights it leaves and what it raises.
UpdateRecommendations(w, a, r) ==
    IF r.kind = "error" THEN [weights |-> w, error |-> "StoreError"]
    ELSE IF "recommendedTool" \notin Columns(r.rows)
         THEN [weights |-> w, error |-> "KeyError"]
    ELSE BlendLoop(Decay(w, a), a, r.rows)

----------------------------------------------------------------------------
(* get_ric_confidence_scores: the Cypher query on a historical graph *)

Sessions == 1..NSessions

\* The historical graphs: Tool nodes (one per id), Job nodes 1..n, each with
\* its EXECUTED tool and its IN_SESSION session.
Graphs ==
    UNION {UNION {[tools : {ts}, jobTool : [1..n -> ts], jobSession : [1..n -> Sessions]]
                    : n \in 0..NJobs} : ts \in SUBSET Tools}

EmptyGraph == [tools |-> {}, jobTool |-> <<>>, jobSession |-> <<>>]

Jobs(g) == DOMAIN g.jobTool

\* The match without its {id: lastToolId} filter.
MatchLastTool_Any(g, id) == g.tools

\* MATCH (lastTool:Tool {id: lastToolId})
MatchLastTool(g, id) == {t \in g.tools : t = id}

\* MATCH (lastTool)<-[:EXECUTED]-(:Job)-[:IN_SESSION]->(s:Session): one row
\* per matching job.
MatchSessions(g, id) ==
    UNION {{[lastTool |-> lt, job |-> j, s |-> g.jobSession[j]] :
                j \in {k \in Jobs(g) : g.jobTool[k] = lt}} :
            lt \in MatchLastTool(g, id)}

\* COLLECT(DISTINCT s) over a group of rows.
CollectDistinct(rows) == {r.s : r \in rows}

\* WITH COLLECT(DISTINCT s) AS sessions_with_last_tool, lastTool: one row per
\* lastTool that has rows, none when nothing matched.
\* WITH size(sessions_with_last_tool) AS last_tool_session_count, ...
WithSessionCount(g, id) ==
    LET rows == MatchSessions(g, id)
    IN  {[lastTool |-> lt,
          sessions |-> CollectDistinct({r \in rows : r.lastTool = lt}),
          count |-> Cardinality(CollectDistinct({r \in rows : r.lastTool = lt}))] :
            lt \in {r.lastTool : r \in rows}}

\* WHERE otherTool <> lastTool
WhereOther(otherTool, lt) == otherTool # lt

\* UNWIND sessions_with_last_tool AS s
\* MATCH (s)<-[:IN_SESSION]-(:Job)-[:EXECUTED]->(otherTool:Tool)
\* WHERE otherTool <> lastTool: one row per session and job of it.
MatchOther(g, id) ==
    UNION {{[count |-> w.count, s |-> g.jobSession[j], job |-> j,
             otherTool |-> g.jobTool[j]] :
                j \in {k \in Jobs(g) : /\ g.jobSession[k] \in w.sessions
                                       /\ WhereOther(g.jobTool[k], w.lastTool)}} :
            w \in WithSessionCount(g, id)}

\* count(s): one per job row, a session counted once per job.
CountDistinct_PerJob(rows) == Cardinality(rows)

\* count(DISTINCT s) over a group of rows.
CountDistinct(rows) == Cardinality({r.s : r \in rows})

\* The division with its operands exchanged.
Confidence_Inverted(joint, count) == Norm(<<count, joint>>)

\* toFloat(joint_session_count) / last_tool_session_count
Confidence(joint, count) == Norm(<<joint, count>>)

\* WITH last_tool_session_count, otherTool, count(DISTINCT s) AS joint_session_count
\* RETURN otherTool.id AS recommendedTool, toFloat(...) / ... AS confidence_score
ReturnRows(g, id) ==
    LET rows == MatchOther(g, id)
    IN  {<<k[2], Confidence(CountDistinct({r \in rows : r.count = k[1] /\ r.otherTool = k[2]}),
                            k[1])>> :
            k \in {<<r.count, r.otherTool>> : r \in rows}}

\* ORDER BY confidence_score (ascending, the default). LIMIT 10.
OrderLimit_Ascending(rows) ==
    {Head_([i \in DOMAIN s |-> s[Len(s) + 1 - i]], Limit) : s \in DescOrders(rows)}

\* ORDER BY confidence_score DESC: every order of the rows that is
\* non-increasing in score.  LIMIT 10.
OrderLimit(rows) == {Head_(s, Limit) : s \in DescOrders(rows)}

\* get_ric_confidence_scores(driver, last_tool_id) on a store holding g: the
\* record lists it can build from the result, and whether it raises.
GetRicConfidenceScores(g, id) ==
    {[raised |-> FALSE, records |-> s] : s \in OrderLimit(ReturnRows(g, id))}

NoResult == [raised |-> FALSE, records |-> <<>>]

\* No second instance is constructed, and the generator is not run.
NoInstances == <<>>
NoScript == <<>>

ScorerIdle ==
    /\ graph = EmptyGraph
    /\ queryTool = "A"
    /\ qpc = "ready"
    /\ qresult = NoResult

\* UserSessionRecommender(driver, all_tool_ids, alpha)
Init ==
    /\ catalog \in Catalogs
    /\ alpha \in Alphas
    /\ weights = InitWeights(catalog)
    /\ pc = "idle"
    /\ stalled = FALSE
    /\ lastTool = "A"
    /\ resp = NoResponse
    /\ before = weights
    /\ outcome = "none"
    /\ error = "none"
    /\ recs = <<>>
    /\ steps = 0
    /\ clean = weights
    /\ ScorerIdle
    /\ two = NoInstances
    /\ gen = NoScript

\* update_recommendations(last_tool_run) is entered and session.run is issued.
StepCall(last) ==
    /\ pc = "idle"
    /\ steps < MaxSteps
    /\ pc' = "querying"
    /\ lastTool' = last
    /\ before' = weights
    /\ steps' = steps + 1
    /\ resp' = NoResponse
    /\ outcome' = "none"
    /\ error' = "none"
    /\ recs' = <<>>
    /\ UNCHANGED <<catalog, alpha, weights, stalled, clean>>
    /\ UNCHANGED <<scorerVars, two, gen>>

\* session.run answers (rows or a driver error) and update_recommendations
\* runs to its return or to the exception that leaves it.
StoreReply(r) ==
    /\ pc = "querying"
    /\ ~stalled
    /\ LET u == UpdateRecommendations(weights, alpha, r)
       IN  /\ weights' = u.weights
           /\ error' = u.error
           /\ IF u.error = "none"
              THEN /\ outcome' = "returned"
                   /\ recs' \in Recommendations(u.weights, lastTool)
              ELSE /\ outcome' = "raised"
                   /\ recs' = <<>>
           /\ clean' = IF u.error = "none"
                       THEN UpdateRecommendations(clean, alpha, r).weights
                       ELSE clean
    /\ resp' = r
    /\ pc' = "idle"
    /\ UNCHANGED <<catalog, alpha, stalled, lastTool, before, steps>>
    /\ UNCHANGED <<scorerVars, two, gen>>

\* The store never answers the pending query: session.run is called without a
\* timeout and nothing in update_recommendations bounds the wait.
StoreStall ==
    /\ pc = "querying"
    /\ ~stalled
    /\ stalled' = TRUE
    /\ UNCHANGED <<catalog, alpha, weights, pc, lastTool, resp, before, outcome,
                   error, recs, steps, clean>>
    /\ UNCHANGED <<scorerVars, two, gen>>

Next ==
    \/ \E last \in Tools : StepCall(last)
    \/ \E r \in Responses(lastTool) : StoreReply(r)
    \/ StoreStall

Spec == Init /\ [][Next]_vars

\* The same session with every enabled step eventually taken.
SpecLive == Spec /\ WF_vars(Next)

----------------------------------------------------------------------------
(* A session of alpha = 0.3 over a catalog of four tools, run on 'A' and then
   on 'B' *)

ScenarioTools == {"A", "B", "C", "D"}
ScenarioScores == {<<1, 5>>, <<2, 5>>, <<1, 2>>, <<4, 5>>}

\* last_tool_run of the successive calls.
ScenarioCalls == <<"A", "B">>

\* What session.run can give, as in Responses, over the four tools.
ScenarioResponseTable ==
    [last \in ScenarioTools |->
        {StoreError} \cup
        {[kind |-> "rows", rows |-> r] :
            r \in {q \in UNION {[1..n -> (ScenarioTools \ {last}) \X ScenarioScores] :
                                    n \in 0..(Cardinality(ScenarioTools) - 1)} :
                      /\ Len(q) <= Limit
                      /\ \A i, j \in DOMAIN q : q[i][1] = q[j][1] => i = j
                      /\ \A i, j \in DOMAIN q : i < j => RLeq(q[j][2], q[i][2])}}]
ScenarioResponses(last) == ScenarioResponseTable[last]

\* UserSessionRecommender(driver, ['A', 'B', 'C', 'D'], alpha=0.3)
InitScenario ==
    /\ catalog = ScenarioTools
    /\ alpha = <<3, 10>>
    /\ weights = InitWeights(catalog)
    /\ pc = "idle"
    /\ stalled = FALSE
    /\ lastTool = "A"
    /\ resp = NoResponse
    /\ before = weights
    /\ outcome = "none"
    /\ error = "none"
    /\ recs = <<>>
    /\ steps = 0
    /\ clean = weights
    /\ ScorerIdle
    /\ two = NoInstances
    /\ gen = NoScript

NextScenario ==
    \/ steps < Len(ScenarioCalls) /\ StepCall(ScenarioCalls[steps + 1])
    \/ \E r \in ScenarioResponses(lastTool) : StoreReply(r)

SpecScenario == InitScenario /\ [][NextScenario]_vars

----------------------------------------------------------------------------
(* One call on a session whose catalog has more tools than the call returns *)

RankOrder == <<"T1", "T2", "T3", "T4", "T5", "T6", "T7">>
RankTools == {RankOrder[i] : i \in DOMAIN RankOrder}

\* all_tool_ids given to the constructor: seven, six and three tools.
RankCatalogs == {RankTools, RankTools \ {"T7"}, {"T1", "T2", "T3"}}

\* last_tool_run of the call.
RankCalls == {"T1", "T7"}

\* The rows that give the tools scored 1 and then the tools scored 1/2, each
\* group by tool id, for an assignment f of a score or of none to each tool.
RankRows(f) ==
    LET ScoredOne(t) == f[t] = One
        ScoredHalf(t) == f[t] = <<1, 2>>
    IN  [i \in DOMAIN SelectSeq(RankOrder, ScoredOne) |->
            <<SelectSeq(RankOrder, ScoredOne)[i], One>>] \o
        [i \in DOMAIN SelectSeq(RankOrder, ScoredHalf) |->
            <<SelectSeq(RankOrder, ScoredHalf)[i], <<1, 2>> >>]

\* What session.run can give: a failure, or rows for any of the other tools.
RankResponseTable ==
    [last \in RankTools |->
        {StoreError} \cup
        {[kind |-> "rows", rows |-> RankRows(f)] :
            f \in {g \in [RankTools -> Scores \cup {Zero}] : g[last] = Zero}}]
RankResponses(last) == RankResponseTable[last]

\* UserSessionRecommender(driver, all_tool_ids, alpha=0.3)
InitRank ==
    /\ catalog \in RankCatalogs
    /\ alpha = <<3, 10>>
    /\ weights = InitWeights(catalog)
    /\ pc = "idle"
    /\ stalled = FALSE
    /\ lastTool = "T1"
    /\ resp = NoResponse
    /\ before = weights
    /\ outcome = "none"
    /\ error = "none"
    /\ recs = <<>>
    /\ steps = 0
    /\ clean = weights
    /\ ScorerIdle
    /\ two = NoInstances
    /\ gen = NoScript

NextRank ==
    \/ \E last \in RankCalls : steps = 0 /\ StepCall(last)
    \/ \E r \in RankResponses(lastTool) : StoreReply(r)

SpecRank == InitRank /\ [][NextRank]_vars

\* The session of the demonstration, untouched.
SessionIdle ==
    /\ catalog = {"A", "B", "C"}
    /\ alpha = <<3, 10>>
    /\ weights = InitWeights(catalog)
    /\ pc = "idle"
    /\ stalled = FALSE
    /\ lastTool = "A"
    /\ resp = NoResponse
    /\ before = weights
    /\ outcome = "none"
    /\ error = "none"
    /\ recs = <<>>
    /\ steps = 0
    /\ clean = weights

----------------------------------------------------------------------------
(* Two UserSessionRecommender instances made from one driver and one
   all_tool_ids list.  two.frames is the heap of DataFrame objects, an
   instance holds the reference of its own; two.list is the list object both
   constructors were given.  two.alone[i] is what the calls of instance i
   make of a frame nobody else touches, and two.made[i] the alpha it was
   constructed with. *)

Instances == {1, 2}

\* alpha given to the constructors.
TwoAlphas == {<<3, 10>>, One}

\* Every instance sharing the one frame made first.
NewFrame_Shared(frames) == 1

\* pd.DataFrame(...).set_index('tool') builds a new object on each call: its
\* reference is one no frame has yet.
NewFrame(frames) == Len(frames) + 1

\* all_tool_ids is built once and no instance exists yet.
InitTwo ==
    /\ \E c \in Catalogs :
          two = [list |-> c, frames |-> <<>>, inst |-> <<>>, pc |-> <<>>,
                 last |-> <<>>, alone |-> <<>>, made |-> <<>>, steps |-> 0]
    /\ SessionIdle
    /\ ScorerIdle
    /\ gen = NoScript

\* UserSessionRecommender(driver, all_tool_ids, alpha)
Construct(a) ==
    /\ two # NoInstances
    /\ Len(two.inst) < Cardinality(Instances)
    /\ LET obj == NewFrame(two.frames)
       IN  two' = [two EXCEPT
                     !.frames = IF obj \in DOMAIN @
                                THEN [@ EXCEPT ![obj] = InitWeights(two.list)]
                                ELSE Append(@, InitWeights(two.list)),
                     !.inst = Append(@, [frame |-> obj, alpha |-> a]),
                     !.pc = Append(@, "idle"),
                     !.last = Append(@, "A"),
                     !.alone = Append(@, InitWeights(two.list)),
                     !.made = Append(@, a)]
    /\ UNCHANGED <<sessionVars, scorerVars, gen>>

\* update_recommendations(last_tool_run) is entered on instance i.
TwoCall(i, last) ==
    /\ two # NoInstances
    /\ Len(two.inst) = Cardinality(Instances)
    /\ two.pc[i] = "idle"
    /\ two.steps < MaxSteps
    /\ two' = [two EXCEPT !.pc[i] = "querying", !.last[i] = last, !.steps = @ + 1]
    /\ UNCHANGED <<sessionVars, scorerVars, gen>>

\* session.run answers the call of instance i, which runs to its end on the
\* frame the instance refers to.
TwoReply(i, r) ==
    /\ two # NoInstances
    /\ i \in DOMAIN two.pc
    /\ two.pc[i] = "querying"
    /\ LET me == two.inst[i]
       IN  two' = [two EXCEPT
                     !.frames[me.frame] = UpdateRecommendations(@, me.alpha, r).weights,
                     !.alone[i] = UpdateRecommendations(@, two.made[i], r).weights,
                     !.pc[i] = "idle"]
    /\ UNCHANGED <<sessionVars, scorerVars, gen>>

NextTwo ==
    \/ \E a \in TwoAlphas : Construct(a)
    \/ \E i \in Instances, last \in Tools : TwoCall(i, last)
    \/ \E i \in Instances : i \in DOMAIN two.last /\
            \E r \in Responses(two.last[i]) : TwoReply(i, r)

SpecTwo == InitTwo /\ [][NextTwo]_vars

\* A store holding any of the historical graphs, before the query is run.
InitScorer ==
    /\ graph \in Graphs
    /\ queryTool = "A"
    /\ qpc = "ready"
    /\ qresult = NoResult
    /\ SessionIdle
    /\ two = NoInstances
    /\ gen = NoScript

\* get_ric_confidence_scores(driver, id) runs on the store's graph.
RunQuery(id) ==
    /\ qpc = "ready"
    /\ queryTool' = id
    /\ qresult' \in GetRicConfidenceScores(graph, id)
    /\ qpc' = "done"
    /\ UNCHANGED graph
    /\ UNCHANGED <<sessionVars, two, gen>>

NextScorer == \E id \in Tools : RunQuery(id)

SpecScorer == InitScorer /\ [][NextScorer]_vars

----------------------------------------------------------------------------
(* The query on graphs where more tools co-occur than the query returns *)

\* Eleven tools besides 'Q', and four sessions.
LimitOrder == <<"T1", "T2", "T3", "T4", "T5", "T6", "T7", "T8", "T9", "T10", "T11">>
LimitOthers == {LimitOrder[i] : i \in DOMAIN LimitOrder}
LimitTools == {"Q"} \cup LimitOthers
LimitSessions == 1..4

\* The number of sessions each of the first nine tools has a job in.
LimitFixed == <<4, 4, 4, 3, 3, 2, 2, 1, 1>>

\* A set as a sequence, in some order.
RECURSIVE SeqOf(_)
SeqOf(S) ==
    IF S = {} THEN <<>>
    ELSE LET x == CHOOSE y \in S : TRUE IN <<x>> \o SeqOf(S \ {x})

\* The graph where 'Q' has a job in every session and tool LimitOrder[i] has a
\* job in each of the sessions 1..k[i].
LimitGraph(k) ==
    LET jobs == SeqOf(({"Q"} \X LimitSessions) \cup
                      {<<LimitOrder[p[1]], p[2]>> :
                          p \in {q \in (DOMAIN LimitOrder) \X LimitSessions : q[2] <= k[q[1]]}})
    IN  [tools |-> LimitTools,
         jobTool |-> [i \in DOMAIN jobs |-> jobs[i][1]],
         jobSession |-> [i \in DOMAIN jobs |-> jobs[i][2]]]

\* The graphs of LimitFixed with every number of sessions for the last two
\* tools.
LimitGraphs ==
    {LimitGraph(LimitFixed \o <<a, b>>) : a \in LimitSessions, b \in LimitSessions}

\* A store holding one of these graphs, before the query is run.
InitLimit ==
    /\ graph \in LimitGraphs
    /\ queryTool = "Q"
    /\ qpc = "ready"
    /\ qresult = NoResult
    /\ SessionIdle
    /\ two = NoInstances
    /\ gen = NoScript

NextLimit == \E id \in {"Q", "T1"} : RunQuery(id)

SpecLimit == InitLimit /\ [][NextLimit]_vars

----------------------------------------------------------------------------
(* Properties of update_recommendations (Spec, SpecLive) *)

\* A call of update_recommendations has ended.
CallEnded == pc = "idle" /\ steps > 0

\* The tools of the rows the last call was answered with.
ScoredTools == {resp.rows[i][1] : i \in DOMAIN resp.rows}

\* The sum of (1 - alpha) * c over the rows (t, c) of the answer.
RECURSIVE BlendSum(_, _)
BlendSum(t, rows) ==
    IF rows = <<>> THEN Zero
    ELSE RAdd(IF Head(rows)[1] = t THEN RMul(RSub(One, alpha), Head(rows)[2]) ELSE Zero,
              BlendSum(t, Tail(rows)))

\* C1: when the store query of a call fails, the weight vector after the call
\* equals, tool for tool, the weight vector the call was entered with.
C1_FailedQueryKeepsWeights ==
    (CallEnded /\ error = "StoreError") => weights = before

\* C1 witness: a failed query on a session whose weights a decay would change.
C1_Witness ==
    /\ CallEnded
    /\ error = "StoreError"
    /\ alpha # One
    /\ \E t \in catalog : before[t] # Zero

\* C2 (as claimed): when the store answers with no row, the call returns, and
\* every weight has been multiplied by alpha with nothing added.
C2_EmptyScoresStepSucceeds ==
    (CallEnded /\ resp.kind = "rows" /\ resp.rows = <<>>) =>
        /\ outcome = "returned"
        /\ weights = [t \in catalog |-> RMul(before[t], alpha)]

\* C3: the key set of the weight vector is the catalog given at construction,
\* after construction and after every call, whatever the store answered.
C3_KeySetIsCatalog == DOMAIN weights = catalog

\* C3 witness: a call was answered with a row for a tool outside the catalog.
C3_Witness ==
    /\ CallEnded
    /\ resp.kind = "rows"
    /\ \E t \in ScoredTools : t \notin catalog

\* C4 (as claimed): every call of update_recommendations eventually ends, also
\* when the store never answers the query.
C4_StepEventuallyCompletes == (pc = "querying") ~> (pc = "idle")

\* C5 (as claimed): a call that returns has decayed every weight and added
\* every blend increment, and a call that raises has left the weights as they
\* were when it was entered.
C5_StepAtomic ==
    CallEnded =>
        /\ outcome = "returned" =>
              weights = [t \in catalog |->
                            RAdd(RMul(before[t], alpha), BlendSum(t, resp.rows))]
        /\ outcome = "raised" => weights = before

\* C6: the tool passed to a call never appears in the list the call returns.
C6_LastToolExcluded ==
    (CallEnded /\ outcome = "returned") =>
        \A i \in DOMAIN recs : recs[i][1] # lastTool

\* C6 witness: the call returned a list although the tool passed to it is in
\* the catalog and outweighs a listed tool.
C6_Witness ==
    /\ CallEnded
    /\ outcome = "returned"
    /\ lastTool \in catalog
    /\ \E i \in DOMAIN recs : RLess(recs[i][2], weights[lastTool])

\* C7 (as claimed): after a call that returned, a catalog tool absent from the
\* call's scores has a strictly smaller weight if alpha < 1 and the same
\* weight if alpha = 1.
C7_DecayStrict ==
    (CallEnded /\ outcome = "returned") =>
        \A t \in catalog \ ScoredTools :
            IF RLess(alpha, One) THEN RLess(weights[t], before[t])
            ELSE weights[t] = before[t]

\* C7 (amended): after a call that returned, a catalog tool absent from the
\* call's scores weighs alpha times what it weighed: strictly less if
\* alpha < 1 and its weight was positive, and the same if alpha = 1 or its
\* weight was zero.
C7_DecayMonotone ==
    (CallEnded /\ outcome = "returned") =>
        \A t \in catalog \ ScoredTools :
            /\ weights[t] = RMul(alpha, before[t])
            /\ IF RLess(alpha, One) /\ RLess(Zero, before[t])
               THEN RLess(weights[t], before[t])
               ELSE weights[t] = before[t]

\* C7 witness: a call returned without a score for a tool of positive weight,
\* with alpha < 1.
C7_Witness ==
    /\ CallEnded
    /\ outcome = "returned"
    /\ RLess(alpha, One)
    /\ \E t \in catalog \ ScoredTools : RLess(Zero, before[t])

\* C11 (as claimed): a store failure ends the call with an error, and an
\* answer without rows never does: the two outcomes differ.
C11_StoreFailureDistinct ==
    CallEnded =>
        /\ resp.kind = "error" => (outcome = "raised" /\ error = "StoreError")
        /\ (resp.kind = "rows" /\ resp.rows = <<>>) => (outcome = "returned" /\ error = "none")

\* C12 (as claimed): after every call, failed or not, another call can be
\* made, and the weights and the returned list are those of the calls that
\* returned, run alone in the same order.
C12_FailedStepsInvisible ==
    CallEnded =>
        /\ steps < MaxSteps => ENABLED StepCall(lastTool)
        /\ weights = clean
        /\ outcome = "returned" => recs \in Recommendations(clean, lastTool)

\* The confidence score the last answer gave tool t, 0 when it gave none.
ScoreOf(t) ==
    IF t \in ScoredTools
    THEN (CHOOSE row \in {resp.rows[i] : i \in DOMAIN resp.rows} : row[1] = t)[2]
    ELSE Zero

\* C13: with alpha = 0 a call that returns leaves every tool its confidence
\* score of that call (0 without one), whatever it weighed before; with
\* alpha = 1 a call that returns leaves every weight as it was.
C13_AlphaBoundaries ==
    (CallEnded /\ outcome = "returned") =>
        /\ alpha = Zero => \A t \in catalog : weights[t] = ScoreOf(t)
        /\ alpha = One => weights = before

\* C13 witness: with alpha = 0, a call returned that gave no score to a tool
\* of positive weight and a score to another.
C13_Witness ==
    /\ CallEnded
    /\ outcome = "returned"
    /\ alpha = Zero
    /\ \E t \in catalog \ ScoredTools : RLess(Zero, before[t])
    /\ \E t \in catalog : RLess(Zero, ScoreOf(t)) /\ ScoreOf(t) # before[t]

\* The weights {A: 0, B: 0.56, C: 0.28, D: 0} and the rows [(A, 0.5), (D, 0.2)].
ScenarioAfterFirst ==
    [t \in ScenarioTools |->
        IF t = "B" THEN <<14, 25>> ELSE IF t = "C" THEN <<7, 25>> ELSE Zero]
ScenarioSecondRows == << <<"A", <<1, 2>> >>, <<"D", <<1, 5>> >> >>

\* The second call of the scenario has returned.
ScenarioDone ==
    /\ CallEnded
    /\ outcome = "returned"
    /\ catalog = ScenarioTools
    /\ alpha = <<3, 10>>
    /\ lastTool = "B"
    /\ before = ScenarioAfterFirst
    /\ resp.rows = ScenarioSecondRows

\* C14: a call that returns leaves every catalog tool alpha times its weight
\* plus (1 - alpha) * c if the answer scored it c, and nothing more otherwise;
\* the scenario ends with {A: 0.35, B: 0.168, C: 0.084, D: 0.14}.
C14_DecayThenBlend ==
    /\ (CallEnded /\ outcome = "returned") =>
          \A t \in catalog :
              weights[t] = RAdd(RMul(alpha, before[t]),
                                IF t \in ScoredTools
                                THEN RMul(RSub(One, alpha), ScoreOf(t)) ELSE Zero)
    /\ ScenarioDone =>
          /\ weights["A"] = <<7, 20>>
          /\ weights["B"] = <<21, 125>>
          /\ weights["C"] = <<21, 250>>
          /\ weights["D"] = <<7, 50>>

\* C14 witness: the scenario was run to its end, the first call having left
\* {A: 0, B: 0.56, C: 0.28, D: 0}.
C14_Witness == ScenarioDone

\* The tools the returned list names.
Listed == {recs[i][1] : i \in DOMAIN recs}

\* C15: the list a call returns has min(5, catalog tools other than the tool
\* passed) entries, by non-increasing weight, each with the tool's weight after
\* the call, and leaves out no other tool heavier than a listed one.
C15_TopFive ==
    (CallEnded /\ outcome = "returned") =>
        /\ Len(recs) = Min(TopK, Cardinality(catalog \ {lastTool}))
        /\ \A i, j \in DOMAIN recs : i < j => RLeq(recs[j][2], recs[i][2])
        /\ \A i \in DOMAIN recs :
              /\ recs[i][1] \in catalog \ {lastTool}
              /\ recs[i][2] = weights[recs[i][1]]
        /\ \A t \in (catalog \ {lastTool}) \ Listed :
              \A i \in DOMAIN recs : ~RLess(recs[i][2], weights[t])

\* C15 witness: more than five other tools, three different weights in the
\* list, and a tool left out that weighs less than a listed one.
C15_Witness ==
    /\ CallEnded
    /\ outcome = "returned"
    /\ Cardinality(catalog \ {lastTool}) > TopK
    /\ Cardinality({recs[i][2] : i \in DOMAIN recs}) >= 3
    /\ \E t \in (catalog \ {lastTool}) \ Listed :
          \E i \in DOMAIN recs : RLess(weights[t], recs[i][2])

\* C17: with alpha in [0, 1] and scores in [0, 1], one per tool, every weight
\* is in [0, 1] in every state.
C17_WeightBounds ==
    \A t \in DOMAIN weights : RLeq(Zero, weights[t]) /\ RLeq(weights[t], One)

\* C17 witness: with 0 < alpha < 1, a tool of positive weight was scored 1
\* again by a call that returned.
C17_Witness ==
    /\ CallEnded
    /\ outcome = "returned"
    /\ RLess(Zero, alpha) /\ RLess(alpha, One)
    /\ \E t \in catalog : RLess(Zero, before[t]) /\ ScoreOf(t) = One

----------------------------------------------------------------------------
(* Properties of get_ric_confidence_scores (SpecScorer) *)

\* The sessions holding a job that executed tool t.
SessionsWith(t) == {graph.jobSession[j] : j \in {k \in Jobs(graph) : graph.jobTool[k] = t}}

\* n: the sessions with the query tool.  m(t): those of them with t as well.
N == Cardinality(SessionsWith(queryTool))
M(t) == Cardinality(SessionsWith(queryTool) \cap SessionsWith(t))

\* The jobs of the sessions with the query tool that executed t.
JobsOf(t) ==
    {j \in Jobs(graph) : graph.jobTool[j] = t /\ graph.jobSession[j] \in SessionsWith(queryTool)}

\* C8: every returned entry (t, score) has t other than the query tool,
\* m(t) > 0 and score = m(t) / n, with sessions counted once each.
C8_ScoreIsSessionFraction ==
    qpc = "done" =>
        \A i \in DOMAIN qresult.records :
            LET t == qresult.records[i][1]
                c == qresult.records[i][2]
            IN  /\ t # queryTool
                /\ M(t) > 0
                /\ N > 0
                /\ c[1] * N = M(t) * c[2]

\* C8 witness: a returned tool was executed by more jobs than there are
\* sessions holding it.
C8_Witness ==
    /\ qpc = "done"
    /\ \E i \in DOMAIN qresult.records :
          Cardinality(JobsOf(qresult.records[i][1])) > M(qresult.records[i][1])

\* C9: every returned confidence score lies in [0, 1].
C9_ScoreBounds ==
    qpc = "done" =>
        \A i \in DOMAIN qresult.records :
            /\ RLeq(Zero, qresult.records[i][2])
            /\ RLeq(qresult.records[i][2], One)

\* C9 witness: a tool scored 1 was executed by more jobs than there are
\* sessions with the query tool.
C9_Witness ==
    /\ qpc = "done"
    /\ \E i \in DOMAIN qresult.records :
          /\ qresult.records[i][2] = One
          /\ Cardinality(JobsOf(qresult.records[i][1])) > N

\* C10: a query for a tool that is not in the graph, or that no job of any
\* session executed, gives an empty result and raises nothing.
C10_UnknownToolEmpty ==
    (qpc = "done" /\ (queryTool \notin graph.tools \/ SessionsWith(queryTool) = {})) =>
        /\ qresult.records = <<>>
        /\ ~qresult.raised

\* C10 witness: a query for a tool absent from a graph whose sessions hold jobs
\* of other tools.
C10_Witness ==
    /\ qpc = "done"
    /\ queryTool \notin graph.tools
    /\ Jobs(graph) # {}

\* The tools of the returned records.
Returned == {qresult.records[i][1] : i \in DOMAIN qresult.records}

\* C16: the result has at most 10 entries, no tool twice, scores in
\* non-increasing order, and no co-occurring tool left out scores more than
\* a returned one.
C16_TopTen ==
    qpc = "done" =>
        /\ Len(qresult.records) <= Limit
        /\ \A i, j \in DOMAIN qresult.records :
              qresult.records[i][1] = qresult.records[j][1] => i = j
        /\ \A i, j \in DOMAIN qresult.records :
              i < j => RLeq(qresult.records[j][2], qresult.records[i][2])
        /\ \A t \in (graph.tools \ {queryTool}) \ Returned :
              M(t) > 0 =>
                  \A i \in DOMAIN qresult.records :
                      M(t) * qresult.records[i][2][2] <= qresult.records[i][2][1] * N

\* C16 witness: ten records returned, and a co-occurring tool left out that
\* scores less than a returned one.
C16_Witness ==
    /\ qpc = "done"
    /\ Len(qresult.records) = Limit
    /\ \E t \in (graph.tools \ {queryTool}) \ Returned :
          /\ M(t) > 0
          /\ \E i \in DOMAIN qresult.records :
                M(t) * qresult.records[i][2][2] < qresult.records[i][2][1] * N

----------------------------------------------------------------------------
(* Claims about two instances; they are checked under SpecTwo. *)

\* Both instances exist and each has ended a call.
BothStepped ==
    /\ two # NoInstances
    /\ Len(two.inst) = Cardinality(Instances)
    /\ \A i \in Instances : two.pc[i] = "idle" /\ two.alone[i] # InitWeights(two.list)

\* C18: under any interleaving of the calls on two instances made from one
\* catalog list, the frame of each instance holds the weights its own calls
\* alone would have left, its alpha is the one it was constructed with, and
\* its index and the catalog list are the catalog.
C18_InstancesIndependent ==
    two # NoInstances =>
        \A i \in DOMAIN two.inst :
            /\ two.frames[two.inst[i].frame] = two.alone[i]
            /\ two.inst[i].alpha = two.made[i]
            /\ DOMAIN two.frames[two.inst[i].frame] = two.list
            /\ two.list \in Catalogs

\* Both instances have stepped and their weights differ.
C18_Witness ==
    /\ BothStepped
    /\ two.alone[1] # two.alone[2]
    /\ two.frames[two.inst[1].frame] # two.frames[two.inst[2].frame]

----------------------------------------------------------------------------
(* generate_cypher_script of the data seeder.  gen holds the loop counters
   (iterations done), the locals of the function and cypher_commands; a
   command is a record [op, x, y, ts].  uuid4 values are taken to be all
   different, their truncations too: gen.uuid counts the draws. *)

\* The user loop runs SeedUsers times (NUM_USERS is 10).
SeedUsers == 1

MIN_STEPS_PER_SESSION == 3
MAX_STEPS_PER_SESSION == 8

\* Minutes between two jobs of a session.
StepMinutes == 5

\* NUM_SESSIONS_PER_USER is drawn once, on import, from 2..5.
SessionCounts == {2}

\* Eight of the 25 tool names.
TOOLS == <<"Galaxy_Upload", "FastQC", "Trimmomatic", "BWA-MEM", "Samtools_view",
           "Samtools_sort", "Samtools_index", "BCFtools_mpileup">>

\* Minutes from a fixed origin to datetime.now() - timedelta(days = d), for
\* one d.
StartTimes == {1440}

Reverse(s) == [p \in DOMAIN s |-> s[Len(s) + 1 - p]]

\* random.sample(TOOLS, n): n different tools in some order; one of its
\* outcomes is drawn.
Samples(n) == {SubSeq(Reverse(TOOLS), 1, n)}

None == <<"none", 0>>

Cmd(op, x, y, ts) == [op |-> op, x |-> x, y |-> y, ts |-> ts]

\* "user_..", "session_..", "job_.." followed by the digits of a new uuid4.
NewId(prefix, uuid) == <<prefix, uuid + 1>>

ToolId(t) == <<"tool", t>>

Timestamp_Flat(start_time, k) == start_time

\* start_time + timedelta(minutes = k * 5)
Timestamp(start_time, k) == start_time + k * StepMinutes

\* Every job linked to what previous_job_id holds, None included.
PrecedesLink_Always(previous_job_id, job_id) ==
    <<Cmd("precedes", previous_job_id, job_id, 0)>>

\* if previous_job_id: the PRECEDES command
PrecedesLink(previous_job_id, job_id) ==
    IF previous_job_id # None
    THEN <<Cmd("precedes", previous_job_id, job_id, 0)>>
    ELSE <<>>

\* The loop head the control is at after i users, j sessions of the current
\* user and k jobs of the current session.
LoopHead(g, i, j, k) ==
    IF k < g.num_steps THEN "job"
    ELSE IF j < g.num_sessions THEN "session"
    ELSE IF i < SeedUsers THEN "user"
    ELSE "done"

\* The script holds the Galaxy node and the Tool nodes, and the user loop is
\* about to start.
InitSeeder ==
    /\ \E n \in SessionCounts :
          gen = [pc |-> "user", i |-> 0, j |-> n, k |-> 0,
                 num_sessions |-> n, num_steps |-> 0,
                 user_id |-> None, session_id |-> None,
                 session_tools |-> <<>>, start_time |-> 0,
                 previous_job_id |-> None, uuid |-> 0,
                 cypher_commands |->
                     <<Cmd("galaxy", None, None, 0)>> \o
                     [p \in DOMAIN TOOLS |-> Cmd("tool", ToolId(TOOLS[p]), None, 0)]]
    /\ SessionIdle
    /\ ScorerIdle
    /\ two = NoInstances

\* One iteration of the user loop, up to the session loop.
UserStep ==
    /\ gen # NoScript
    /\ gen.pc = "user"
    /\ LET user_id == NewId("user", gen.uuid)
       IN  gen' = [gen EXCEPT
                     !.user_id = user_id,
                     !.uuid = @ + 1,
                     !.cypher_commands = Append(@, Cmd("user", user_id, None, 0)),
                     !.i = @ + 1,
                     !.j = 0,
                     !.pc = "session"]
    /\ UNCHANGED <<sessionVars, scorerVars, two>>

\* One iteration of the session loop, up to the job loop.
SessionStep(num_steps, session_tools, start_time) ==
    /\ gen # NoScript
    /\ gen.pc = "session"
    /\ LET session_id == NewId("session", gen.uuid)
       IN  gen' = [gen EXCEPT
                     !.session_id = session_id,
                     !.uuid = @ + 1,
                     !.cypher_commands =
                         Append(@, Cmd("session", session_id, gen.user_id, 0)),
                     !.num_steps = num_steps,
                     !.session_tools = session_tools,
                     !.start_time = start_time,
                     !.previous_job_id = None,
                     !.j = @ + 1,
                     !.k = 0,
                     !.pc = "job"]
    /\ UNCHANGED <<sessionVars, scorerVars, two>>

\* One iteration of the job loop.
JobStep ==
    /\ gen # NoScript
    /\ gen.pc = "job"
    /\ LET job_id == NewId("job", gen.uuid)
           tool_id == gen.session_tools[gen.k + 1]
           timestamp == Timestamp(gen.start_time, gen.k)
       IN  gen' = [gen EXCEPT
                     !.uuid = @ + 1,
                     !.cypher_commands =
                         @ \o <<Cmd("job", job_id, gen.session_id, timestamp),
                                Cmd("executed", job_id, ToolId(tool_id), 0)>>
                           \o PrecedesLink(gen.previous_job_id, job_id),
                     !.previous_job_id = job_id,
                     !.k = @ + 1,
                     !.pc = LoopHead(gen, gen.i, gen.j, gen.k + 1)]
    /\ UNCHANGED <<sessionVars, scorerVars, two>>

NextSeeder ==
    \/ UserStep
    \/ \E num_steps \in MIN_STEPS_PER_SESSION..MAX_STEPS_PER_SESSION :
          \E session_tools \in Samples(num_steps), start_time \in StartTimes :
              SessionStep(num_steps, session_tools, start_time)
    \/ JobStep

SpecSeeder == InitSeeder /\ [][NextSeeder]_vars

----------------------------------------------------------------------------
(* Claims about the seeder; they are checked under SpecSeeder. *)

Script == IF gen = NoScript THEN <<>> ELSE gen.cypher_commands

ScriptOps(op) == SelectSeq(Script, LAMBDA c : c.op = op)

\* The sessions the script creates, and those whose job loop has ended.
ScriptSessions == {ScriptOps("session")[p].x : p \in DOMAIN ScriptOps("session")}
EndedSessions ==
    {s \in ScriptSessions : gen.pc # "job" \/ s # gen.session_id}

\* The Job commands of session s, in creation order.
SessionJobs(s) == SelectSeq(Script, LAMBDA c : c.op = "job" /\ c.y = s)

ScriptJobs == {ScriptOps("job")[p].x : p \in DOMAIN ScriptOps("job")}

PrecedesPairs ==
    {<<ScriptOps("precedes")[p].x, ScriptOps("precedes")[p].y>> :
        p \in DOMAIN ScriptOps("precedes")}

\* Every job of a session paired with the job created right after it.
SuccessorPairs ==
    UNION {LET jobs == SessionJobs(s)
           IN  {<<jobs[p].x, jobs[p + 1].x>> : p \in 1..(Len(jobs) - 1)} :
           s \in ScriptSessions}

\* C19: in the script, a session whose job loop has ended has 3 to 8 jobs;
\* no two Job commands create the same job, each names a session of the
\* script, and the jobs are those of the EXECUTED commands, one command per
\* job, each naming a tool; the timestamps of a session strictly
\* increase in creation order; and the PRECEDES commands are, once each, the
\* pairs of a job and the next job of its session.
C19_ScriptShape ==
    /\ \A s \in EndedSessions :
          Len(SessionJobs(s)) \in MIN_STEPS_PER_SESSION..MAX_STEPS_PER_SESSION
    /\ LET jobs == ScriptOps("job")
           executed == ScriptOps("executed")
           sessions == ScriptSessions
           tools == {ToolId(TOOLS[p]) : p \in DOMAIN TOOLS}
       IN  /\ \A p, q \in DOMAIN jobs : jobs[p].x = jobs[q].x => p = q
           /\ \A p \in DOMAIN jobs : jobs[p].y \in sessions
           /\ \A p, q \in DOMAIN executed : executed[p].x = executed[q].x => p = q
           /\ {executed[p].x : p \in DOMAIN executed} = ScriptJobs
           /\ \A p \in DOMAIN executed : executed[p].y \in tools
    /\ \A s \in ScriptSessions :
          LET jobs == SessionJobs(s)
          IN  \A p, q \in DOMAIN jobs : p < q => jobs[p].ts < jobs[q].ts
    /\ PrecedesPairs = SuccessorPairs
    /\ Len(ScriptOps("precedes")) = Cardinality(SuccessorPairs)

\* The script is complete, with a session of 3 jobs and one of 8.
C19_Witness ==
    /\ gen # NoScript
    /\ gen.pc = "done"
    /\ \E s, t \in ScriptSessions :
          /\ Len(SessionJobs(s)) = MIN_STEPS_PER_SESSION
          /\ Len(SessionJobs(t)) = MAX_STEPS_PER_SESSION
    /\ Cardinality(PrecedesPairs) =
           MIN_STEPS_PER_SESSION + MAX_STEPS_PER_SESSION - Cardinality(ScriptSessions)

====
